---- MODULE Spec2Model ----
(***************************************************************************)
(* VeilGame (contracts/VeilGame.sol): a confidential builder game.  Every  *)
(* player owns an encrypted euint32 balance and nine encrypted euint8      *)
(* tiles.  joinGame mints the starting balance and empty tiles; build      *)
(* takes an encrypted building type and applies it with FHE.select, so the *)
(* write only happens when the type is known and affordable.               *)
(*                                                                         *)
(* A ciphertext is modelled as a record of its handle (what the contract   *)
(* stores) and the clear value it encrypts (what the owner would decrypt). *)
(* The ACL is the set of (handle, account) pairs persisted by FHE.allow    *)
(* and FHE.allowThis.  A transaction is atomic: a failed require reverts   *)
(* every write of the call.                                                *)
(***************************************************************************)
EXTENDS Integers, Sequences, FiniteSets

VARIABLES players, allowed, log, nextHandle, sharedTrivial, calls, tx, spent, ui, cli

\* what the chain holds, with the history of its calls
chain == <<players, allowed, log, nextHandle, sharedTrivial, calls, tx, spent>>

vars == <<players, allowed, log, nextHandle, sharedTrivial, calls, tx, spent, ui, cli>>

(* ---------------- program constants ---------------- *)

STARTING_BALANCE == 10000

MAP_SIZE == 9

\* a euint32 clear value is kept as two 16-bit halves, hi * 65536 + lo, so that
\* the wrapping subtraction of FHE.sub is computed at its full width
Half == 65536

Uint8Max == 255

(* ---------------- bounds of the model ---------------- *)

\* calls admitted under Spec (two players, every kind of input)
MaxCalls == 3

\* calls admitted under SpecLong (one player, spends the whole balance)
MaxLongCalls == 12

\* calls admitted under SpecCost (one player, every uint8 type code)
MaxCostCalls == 2

\* clicks and task runs of the user under SpecUi
MaxClicks == 4

Players == {"A", "B"}

\* address(this)
This == "VeilGame"

\* uint8 tileIndex arguments tried: first, inner, last, first invalid, largest
TileInputs == {0, 2, MAP_SIZE - 1, MAP_SIZE, Uint8Max}

\* clear values of the encrypted building type tried
TypeInputs == {0, 1, 2, 3, 4, 5, Uint8Max}

LongPlayers == {"A"}

LongTiles == {2}

LongTypes == {1, 2, 3, 4, 9}

TileIndexes == 0 .. (MAP_SIZE - 1)

(* ---------------- revert reasons ---------------- *)

Ok == "ok"

AlreadyJoined == "Already joined"

NotJoined == "Join first"

IndexOutOfRange == "Invalid tile"

\* FHE.fromExternal reverts when the input proof does not verify
InvalidProof == "Invalid proof"

(* ---------------- ciphertexts and handles ---------------- *)

\* a handle is <<how it was made, the encrypted type, a number>>

\* the zero handle of a storage slot never written
NoHandle == <<"none", "none", 0>>

\* handle of the result of an FHE operation; k is the operation's serial number
Computed(type, k) == <<"computed", type, k>>

\* handle of a trivial encryption when the provider derives it from (type, value)
Trivial(type, v) == <<"trivial", type, v>>

\* handle of an encrypted input built by the caller
External(type, k) == <<"input", type, k>>

Ct(h, v) == [handle |-> h, clear |-> v]

\* the uint32 with value n, for 0 <= n < 2^31
U32(n) == [hi |-> n \div Half, lo |-> n % Half]

U32Ge(a, b) == a.hi > b.hi \/ (a.hi = b.hi /\ a.lo >= b.lo)

\* a - b modulo 2^32
U32Sub(a, b) ==
    LET borrow == IF a.lo < b.lo THEN 1 ELSE 0
    IN  [hi |-> (a.hi - b.hi - borrow + Half) % Half, lo |-> (a.lo - b.lo + Half) % Half]

Uninitialized8 == Ct(NoHandle, 0)

Uninitialized32 == Ct(NoHandle, U32(0))

\* PlayerState of an address that never joined: the mapping's default value
EmptyPlayer ==
    [joined |-> FALSE, balance |-> Uninitialized32, tiles |-> [i \in TileIndexes |-> Uninitialized8]]

(* ---------------- the FHE library, as the contract uses it ---------------- *)

\* The handle of a trivial encryption is the provider's choice: a handle of its
\* own, or the one handle derived from the type and the clear value.  Both
\* providers are covered; sharedTrivial is fixed when the chain starts.
FHE_asEuint32(v, k) ==
    Ct(IF sharedTrivial THEN Trivial("euint32", v) ELSE Computed("euint32", k), U32(v))

FHE_asEuint8(v, k) ==
    Ct(IF sharedTrivial THEN Trivial("euint8", v) ELSE Computed("euint8", k), v)

FHE_fromExternal(x, k) == Ct(External("euint8", k), x)

FHE_eq(a, scalar, k) == Ct(Computed("ebool", k), a.clear = scalar)

\* used on euint32 only (line 303)
FHE_ne(a, scalar, k) == Ct(Computed("ebool", k), a.clear # U32(scalar))

\* used on euint32 only (line 304)
FHE_ge(a, b, k) == Ct(Computed("ebool", k), U32Ge(a.clear, b.clear))

FHE_and(a, b, k) == Ct(Computed("ebool", k), a.clear /\ b.clear)

\* euint32 subtraction wraps
FHE_sub(a, b, k) == Ct(Computed("euint32", k), U32Sub(a.clear, b.clear))

FHE_select(c, a, b, k) == Ct(Computed(a.handle[2], k), IF c.clear THEN a.clear ELSE b.clear)

\* mutant: a grant that is already there is taken away
FHE_allowToggle(acl, ct, account) ==
    IF <<ct.handle, account>> \in acl
    THEN acl \ {<<ct.handle, account>>}
    ELSE acl \cup {<<ct.handle, account>>}

FHE_allow(acl, ct, account) == acl \cup {<<ct.handle, account>>}

FHE_allowThis(acl, ct) == FHE_allow(acl, ct, This)

(* ---------------- VeilGame ---------------- *)

\* README, Gameplay Mechanics: the public cost table
TableCost(t) ==
    CASE t = 1 -> 100
      [] t = 2 -> 200
      [] t = 3 -> 400
      [] t = 4 -> 1000
      [] OTHER -> 0

\* mutant: the last entry of the table is not evaluated
buildingCostThreeEntries(buildingType, k) ==
    LET cost0 == FHE_asEuint32(0, k)
        cost1 == FHE_select(FHE_eq(buildingType, 1, k + 1), FHE_asEuint32(100, k + 2), cost0, k + 3)
        cost2 == FHE_select(FHE_eq(buildingType, 2, k + 4), FHE_asEuint32(200, k + 5), cost1, k + 6)
        cost3 == FHE_select(FHE_eq(buildingType, 3, k + 7), FHE_asEuint32(400, k + 8), cost2, k + 9)
    IN  cost3

\* _buildingCost: handles k .. k+12
buildingCost(buildingType, k) ==
    LET cost0 == FHE_asEuint32(0, k)
        cost1 == FHE_select(FHE_eq(buildingType, 1, k + 1), FHE_asEuint32(100, k + 2), cost0, k + 3)
        cost2 == FHE_select(FHE_eq(buildingType, 2, k + 4), FHE_asEuint32(200, k + 5), cost1, k + 6)
        cost3 == FHE_select(FHE_eq(buildingType, 3, k + 7), FHE_asEuint32(400, k + 8), cost2, k + 9)
        cost4 == FHE_select(FHE_eq(buildingType, 4, k + 10), FHE_asEuint32(1000, k + 11), cost3, k + 12)
    IN  cost4

\* the state a call starts from, kept with the call so that its effect can be stated
Snapshot == [players |-> players, allowed |-> allowed, log |-> log, nextHandle |-> nextHandle]

\* what a function without return value returns, and what a reverted call returns
NoReturn == <<>>

\* the call just executed and its outcome, as the caller sees it; caller is
\* msg.sender of joinGame and build, and the player argument of a view
Receipt(op, p, i, x, proofOk, reason) ==
    [op |-> op, caller |-> p, tileIndex |-> i, type |-> x, proofOk |-> proofOk,
     err |-> reason, ret |-> NoReturn, pre |-> Snapshot]

\* a view that returns: nothing is written, the caller gets the value
Return(op, p, i, value) ==
    /\ tx' = [Receipt(op, p, i, 0, TRUE, Ok) EXCEPT !.ret = value]
    /\ UNCHANGED <<players, allowed, log, nextHandle>>

\* mutant: the join flag is written before the failing check and not rolled back
RevertKeepsFlag(op, p, i, x, proofOk, reason) ==
    /\ tx' = Receipt(op, p, i, x, proofOk, reason)
    /\ players' = [players EXCEPT ![p].joined = TRUE]
    /\ UNCHANGED <<allowed, log, nextHandle>>

\* a failed require (lines 274, 296, 297) or a revert inside FHE.fromExternal
\* (line 300): nothing is written, the caller sees the reason
Revert(op, p, i, x, proofOk, reason) ==
    /\ tx' = Receipt(op, p, i, x, proofOk, reason)
    /\ UNCHANGED <<players, allowed, log, nextHandle>>

\* mutant: the require of line 274 is dropped
canJoinAlways(player) == TRUE

\* line 274
canJoin(player) == ~player.joined

\* mutant: the loop of line 279 stops one tile early
joinedPlayerShort(k) ==
    [joined |-> TRUE,
     balance |-> FHE_asEuint32(STARTING_BALANCE, k),
     tiles |-> [i \in TileIndexes |->
                  IF i < MAP_SIZE - 1 THEN FHE_asEuint8(0, k + 1 + i) ELSE Uninitialized8]]

\* lines 277-286: the record joinGame writes; handles k (balance), k+1 .. k+9 (tiles)
joinedPlayer(k) ==
    [joined |-> TRUE,
     balance |-> FHE_asEuint32(STARTING_BALANCE, k),
     tiles |-> [i \in TileIndexes |-> FHE_asEuint8(0, k + 1 + i)]]

\* lines 279-283: the grants of the loop of joinGame, from tile i on
RECURSIVE tileGrants(_, _, _, _)
tileGrants(acl, player, sender, i) ==
    IF ~(i < MAP_SIZE) THEN acl
    ELSE tileGrants(FHE_allow(FHE_allowThis(acl, player.tiles[i]), player.tiles[i], sender),
                    player, sender, i + 1)

\* lines 279-286: the grants joinGame issues, in the code's order
joinGrants(acl, player, sender) ==
    FHE_allow(FHE_allowThis(tileGrants(acl, player, sender, 0), player.balance),
              player.balance, sender)

JoinGame(p) ==
    /\ calls' = calls + 1
    /\ UNCHANGED <<sharedTrivial, spent>>
    /\ IF ~canJoin(players[p])
       THEN Revert("joinGame", p, 0, 0, TRUE, AlreadyJoined)
       ELSE LET player == joinedPlayer(nextHandle)
            IN  /\ players' = [players EXCEPT ![p] = player]
                /\ allowed' = joinGrants(allowed, player, p)
                /\ log' = Append(log, <<"PlayerJoined", p>>)
                /\ nextHandle' = nextHandle + 1 + MAP_SIZE
                /\ tx' = Receipt("joinGame", p, 0, 0, TRUE, Ok)

\* mutant: the input is decoded before the tile index is checked
buildCheckProofFirst(player, tileIndex, proofOk) ==
    IF ~player.joined THEN NotJoined
    ELSE IF ~proofOk THEN InvalidProof
    ELSE IF ~(tileIndex < MAP_SIZE) THEN IndexOutOfRange
    ELSE Ok

\* mutant: the tile index is checked before the join flag
buildCheckIndexFirst(player, tileIndex, proofOk) ==
    IF ~(tileIndex < MAP_SIZE) THEN IndexOutOfRange
    ELSE IF ~player.joined THEN NotJoined
    ELSE IF ~proofOk THEN InvalidProof
    ELSE Ok

\* lines 296, 297, 300: the first check of build that fails, in the code's order
buildCheck(player, tileIndex, proofOk) ==
    IF ~player.joined THEN NotJoined
    ELSE IF ~(tileIndex < MAP_SIZE) THEN IndexOutOfRange
    ELSE IF ~proofOk THEN InvalidProof
    ELSE Ok

\* mutant: the cost is never compared with zero
hasCostAlways(cost, k) == Ct(Computed("ebool", k), TRUE)

\* line 303
hasCost(cost, k) == FHE_ne(cost, 0, k)

\* mutant: the balance is never compared with the cost
canAffordAlways(balance, cost, k) == Ct(Computed("ebool", k), TRUE)

\* mutant: FHE.gt instead of FHE.ge
canAffordStrict(balance, cost, k) ==
    Ct(Computed("ebool", k), U32Ge(balance.clear, cost.clear) /\ balance.clear # cost.clear)

\* line 304
canAfford(balance, cost, k) == FHE_ge(balance, cost, k)

\* mutant: the balance check is left out of the condition
shouldBuildIgnoresFunds(has, can, k) == FHE_and(has, has, k)

\* line 305
shouldBuild(has, can, k) == FHE_and(has, can, k)

\* mutant: the old balance ciphertext is kept when nothing is built
newBalanceKeepsOld(should, balance, cost, k) ==
    IF should.clear THEN FHE_select(should, FHE_sub(balance, cost, k), balance, k + 1)
    ELSE balance

\* mutant: the difference is stored whether or not the build commits
newBalanceAlwaysSubtracts(should, balance, cost, k) ==
    FHE_select(should, FHE_sub(balance, cost, k), FHE_sub(balance, cost, k), k + 1)

\* line 307: handles k (difference) and k+1 (selected)
newBalance(should, balance, cost, k) ==
    FHE_select(should, FHE_sub(balance, cost, k), balance, k + 1)

\* mutant: the old ciphertext is kept instead of a select when nothing is built
newTileKeepsOld(should, chosenType, tile, k) ==
    IF should.clear THEN FHE_select(should, chosenType, tile, k) ELSE tile

\* line 308
newTile(should, chosenType, tile, k) == FHE_select(should, chosenType, tile, k)

\* lines 310-313
buildGrants(acl, balance, tile, sender) ==
    FHE_allow(FHE_allowThis(FHE_allow(FHE_allowThis(acl, balance), balance, sender), tile), tile, sender)

\* lines 300-302: the cost of the decoded input; handles k .. k+13
buildCost(x, k) == buildingCost(FHE_fromExternal(x, k), k + 1)

\* lines 303-305: the encrypted condition of the write; handles k+14 .. k+16
buildCommit(player, x, k) ==
    LET cost == buildCost(x, k)
    IN  shouldBuild(hasCost(cost, k + 14), canAfford(player.balance, cost, k + 15), k + 16)

\* mutant: a committed build gives back the table cost of the building it replaces
builtPlayerRefunds(player, tileIndex, x, k) ==
    LET chosenType == FHE_fromExternal(x, k)
        cost == buildCost(x, k)
        should == buildCommit(player, x, k)
        paid == newBalance(should, player.balance, cost, k + 17)
        refund == IF should.clear THEN TableCost(player.tiles[tileIndex].clear) ELSE 0
    IN  [player EXCEPT !.balance = Ct(paid.handle, U32(paid.clear.lo + refund)),
                       !.tiles[tileIndex] = newTile(should, chosenType, player.tiles[tileIndex], k + 19)]

\* mutant: the selected type is written to every tile of the caller
builtPlayerAllTiles(player, tileIndex, x, k) ==
    LET chosenType == FHE_fromExternal(x, k)
        cost == buildCost(x, k)
        should == buildCommit(player, x, k)
    IN  [player EXCEPT !.balance = newBalance(should, player.balance, cost, k + 17),
                       !.tiles = [j \in TileIndexes |->
                                     newTile(should, chosenType, player.tiles[j], k + 19)]]

\* lines 300-308: the record build writes; handles k .. k+19
builtPlayer(player, tileIndex, x, k) ==
    LET chosenType == FHE_fromExternal(x, k)
        cost == buildCost(x, k)
        should == buildCommit(player, x, k)
    IN  [player EXCEPT !.balance = newBalance(should, player.balance, cost, k + 17),
                       !.tiles[tileIndex] = newTile(should, chosenType, player.tiles[tileIndex], k + 19)]

\* history: the table cost of every build of p whose commit condition held
spentAfter(p, i, x, proofOk) ==
    IF buildCheck(players[p], i, proofOk) = Ok /\ buildCommit(players[p], x, nextHandle).clear
    THEN [spent EXCEPT ![p] = @ + TableCost(x)]
    ELSE spent

Build(p, i, x, proofOk) ==
    /\ calls' = calls + 1
    /\ UNCHANGED sharedTrivial
    /\ spent' = spentAfter(p, i, x, proofOk)
    /\ IF buildCheck(players[p], i, proofOk) # Ok
       THEN Revert("build", p, i, x, proofOk, buildCheck(players[p], i, proofOk))
       ELSE LET player == builtPlayer(players[p], i, x, nextHandle)
            IN  /\ players' = [players EXCEPT ![p] = player]
                /\ allowed' = buildGrants(allowed, player.balance, player.tiles[i], p)
                /\ log' = Append(log, <<"BuildingPlaced", p, i>>)
                /\ nextHandle' = nextHandle + 20
                /\ tx' = Receipt("build", p, i, x, proofOk, Ok)

\* lines 336-339: the provider operations of one table entry, in the order
\* Solidity evaluates them
costEntryOps == <<"eq", "asEuint32", "select">>

\* mutant: the evaluator returns at the first entry that matches
buildingCostOpsEarlyReturn(buildingType) ==
    <<"asEuint32">> \o
    (IF buildingType = 1 THEN costEntryOps
     ELSE IF buildingType = 2 THEN costEntryOps \o costEntryOps
     ELSE IF buildingType = 3 THEN costEntryOps \o costEntryOps \o costEntryOps
     ELSE costEntryOps \o costEntryOps \o costEntryOps \o costEntryOps)

\* lines 335-339: the provider operations of _buildingCost
buildingCostOps(buildingType) ==
    <<"asEuint32">> \o costEntryOps \o costEntryOps \o costEntryOps \o costEntryOps

\* lines 300-313: the provider operations of a build that passed its requires
buildOps(player, tileIndex, x) ==
    <<"fromExternal">> \o buildingCostOps(x)
        \o <<"ne", "ge", "and", "sub", "select", "select">>
        \o <<"allowThis", "allow", "allowThis", "allow">>

\* lines 319-321
IsJoined(p) ==
    /\ calls' = calls + 1
    /\ UNCHANGED <<sharedTrivial, spent>>
    /\ Return("isJoined", p, 0, players[p].joined)

\* lines 324-326: no check at all
getBalanceCheck(player) == Ok

GetBalance(p) ==
    /\ calls' = calls + 1
    /\ UNCHANGED <<sharedTrivial, spent>>
    /\ IF getBalanceCheck(players[p]) # Ok
       THEN Revert("getBalance", p, 0, 0, TRUE, getBalanceCheck(players[p]))
       ELSE Return("getBalance", p, 0, players[p].balance.handle)

\* mutant: the index is reduced modulo the map size instead of being checked
getTileSlotWraps(tileIndex) == tileIndex % MAP_SIZE

\* lines 330-331: the slot read, MAP_SIZE standing for a failed require
getTileSlot(tileIndex) == IF tileIndex < MAP_SIZE THEN tileIndex ELSE MAP_SIZE

GetTile(p, i) ==
    /\ calls' = calls + 1
    /\ UNCHANGED <<sharedTrivial, spent>>
    /\ IF getTileSlot(i) \notin TileIndexes
       THEN Revert("getTile", p, i, 0, TRUE, IndexOutOfRange)
       ELSE Return("getTile", p, i, players[p].tiles[getTileSlot(i)].handle)

(* ---------------- the web page (GameApp.tsx) ---------------- *)

TILE_COUNT == 9

\* the build list of the web page (id and cost of each entry)
BUILDINGS ==
    <<[id |-> 1, cost |-> 100], [id |-> 2, cost |-> 200],
      [id |-> 3, cost |-> 400], [id |-> 4, cost |-> 1000]>>

\* useAccount() without a connected wallet
NoAddress == "undefined"

\* a useReadContract result that has not arrived
NoData == [loaded |-> FALSE, handle |-> NoHandle, value |-> 0]

\* the number a uint32 clear value is
ToNumber(u) == u.hi * Half + u.lo

\* what getBalance / getTile return for a player, with the number the
\* ciphertext of that handle decrypts to
BalanceData(records, p) ==
    [loaded |-> TRUE, handle |-> records[p].balance.handle,
     value |-> ToNumber(records[p].balance.clear)]

\* lines 101-125: one getTile per index below TILE_COUNT, failures allowed
TileData(records, p) ==
    [i \in 0 .. (TILE_COUNT - 1) |->
        IF getTileSlot(i) \in TileIndexes
        THEN [loaded |-> TRUE, handle |-> records[p].tiles[i].handle,
              value |-> records[p].tiles[i].clear]
        ELSE NoData]

\* lines 40-51: bigint, number and string become a number, anything else 0
parseDecryptedValue(value) ==
    IF value.type \in {"bigint", "number", "string"} THEN value.n ELSE 0

\* userDecrypt: the clear value of a handle as a bigint
userDecrypt(data) == [type |-> "bigint", n |-> data.value]

\* lines 60-68: the state of the component when it mounts
InitialUi ==
    [address |-> NoAddress,
     selectedTile |-> 0,
     selectedBuilding |-> 1,
     clearBalance |-> <<>>,
     decryptedTiles |-> [i \in 0 .. (TILE_COUNT - 1) |-> <<>>],
     isJoining |-> FALSE,
     isBuilding |-> FALSE,
     isDecryptingBalance |-> FALSE,
     isDecryptingTile |-> FALSE,
     joinedData |-> FALSE,
     balanceData |-> NoData,
     tileData |-> [i \in 0 .. (TILE_COUNT - 1) |-> NoData],
     inFlight |-> {},
     clicks |-> 0]

\* lines 370, 389: the number a tile is shown with
tileLabel(index) == index + 1

\* lines 86, 343, 350, 399, 438: what the buttons are enabled by
isConnected == ui.address # NoAddress

isJoinedShown == ui.joinedData

joinEnabled == isConnected /\ ~ui.isJoining /\ ~isJoinedShown

decryptBalanceEnabled == isJoinedShown /\ ~ui.isDecryptingBalance

decryptTileEnabled == isJoinedShown /\ ~ui.isDecryptingTile

buildEnabled == isJoinedShown /\ ~ui.isBuilding

\* one run of a handler that has passed its first await
Running(handler, data) ==
    [handler |-> handler, address |-> ui.address, tile |-> ui.selectedTile,
     building |-> ui.selectedBuilding, handle |-> data.handle, value |-> data.value]

\* the user acts on the page: one more click
Click(u) == [u EXCEPT !.clicks = @ + 1]

\* lines 70-74 and the query keys of lines 76-125: the wallet switches to
\* account a; the decrypted values are dropped and the reads are made for a
AccountChange(a) ==
    /\ a # ui.address
    /\ ui' = [Click(ui) EXCEPT !.address = a,
                                !.clearBalance = <<>>,
                                !.decryptedTiles = [i \in 0 .. (TILE_COUNT - 1) |-> <<>>],
                                !.joinedData = players[a].joined,
                                !.balanceData = BalanceData(players, a),
                                !.tileData = TileData(players, a)]
    /\ UNCHANGED <<chain, cli>>

\* the query layer reads isJoined, getBalance and getTile again (window
\* focus, reconnect)
Refetch ==
    /\ isConnected
    /\ ui' = [ui EXCEPT !.joinedData = players[ui.address].joined,
                         !.balanceData = BalanceData(players, ui.address),
                         !.tileData = TileData(players, ui.address)]
    /\ ui' # ui
    /\ UNCHANGED <<chain, cli>>

\* line 387: a tile of the grid is clicked
SelectTile(index) ==
    /\ index \in 0 .. (TILE_COUNT - 1)
    /\ ui' = [Click(ui) EXCEPT !.selectedTile = index]
    /\ UNCHANGED <<chain, cli>>

\* line 424: a card of the build list is clicked
SelectBuilding(n) ==
    /\ n \in 1 .. Len(BUILDINGS)
    /\ ui' = [Click(ui) EXCEPT !.selectedBuilding = BUILDINGS[n].id]
    /\ UNCHANGED <<chain, cli>>

\* mutant: the flag is not reset when a run ends
FinishedFlagStays(u, r, flag) == [u EXCEPT !.inFlight = @ \ {r}]

\* lines 214-216, 253-255, 278-280, 306-308: finally, the run r is over
Finished(u, r, flag) == [u EXCEPT ![flag] = FALSE, !.inFlight = @ \ {r}]

\* lines 208-209, 247-248: refetchBalance and refetchTiles after tx.wait()
Refetched(u, records) ==
    IF u.address = NoAddress THEN u
    ELSE [u EXCEPT !.balanceData = BalanceData(records, u.address),
                   !.tileData = TileData(records, u.address)]

\* lines 188-199: Join game is clicked
JoinStart ==
    /\ joinEnabled
    /\ ui' = [Click(ui) EXCEPT !.isJoining = TRUE, !.inFlight = @ \cup {Running("join", NoData)}]
    /\ UNCHANGED <<chain, cli>>

\* lines 200-216: the run of handleJoin ends; sent is false when the signer
\* is missing or the wallet refuses
JoinEnd(r, sent) ==
    /\ r \in ui.inFlight /\ r.handler = "join"
    /\ IF sent
       THEN /\ JoinGame(r.address)
            /\ ui' = Finished(IF canJoin(players[r.address]) THEN Refetched(ui, players') ELSE ui,
                               r, "isJoining")
       ELSE /\ ui' = Finished(ui, r, "isJoining")
            /\ UNCHANGED chain
    /\ UNCHANGED cli

\* lines 219-230: Build on selected tile is clicked
BuildStart ==
    /\ buildEnabled /\ isConnected
    /\ ui' = [Click(ui) EXCEPT !.isBuilding = TRUE, !.inFlight = @ \cup {Running("build", NoData)}]
    /\ UNCHANGED <<chain, cli>>

\* lines 231-255: the run of handleBuild ends
BuildEnd(r, sent) ==
    /\ r \in ui.inFlight /\ r.handler = "build"
    /\ IF sent
       THEN /\ Build(r.address, r.tile, r.building, TRUE)
            /\ ui' = Finished(IF buildCheck(players[r.address], r.tile, TRUE) = Ok
                               THEN Refetched(ui, players') ELSE ui,
                               r, "isBuilding")
       ELSE /\ ui' = Finished(ui, r, "isBuilding")
            /\ UNCHANGED chain
    /\ UNCHANGED cli

\* lines 258-269: Decrypt balance is clicked
DecryptBalanceStart ==
    /\ decryptBalanceEnabled
    /\ ui.balanceData.loaded /\ ui.balanceData.handle # NoHandle
    /\ ui' = [Click(ui) EXCEPT !.isDecryptingBalance = TRUE,
                                !.inFlight = @ \cup {Running("decryptBalance", ui.balanceData)}]
    /\ UNCHANGED <<chain, cli>>

\* lines 142-186: the relayer decrypts for an account the ACL allows
canDecrypt(r) == r.address # NoAddress /\ <<r.handle, r.address>> \in allowed

\* lines 270-281: the run of handleDecryptBalance ends
DecryptBalanceEnd(r, signed) ==
    /\ r \in ui.inFlight /\ r.handler = "decryptBalance"
    /\ ui' = Finished(IF signed /\ canDecrypt(r)
                       THEN [ui EXCEPT !.clearBalance = <<parseDecryptedValue(userDecrypt(r))>>]
                       ELSE ui,
                       r, "isDecryptingBalance")
    /\ UNCHANGED <<chain, cli>>

\* lines 283-294: Decrypt selected tile is clicked
DecryptTileStart ==
    /\ decryptTileEnabled
    /\ ui.tileData[ui.selectedTile].loaded /\ ui.tileData[ui.selectedTile].handle # NoHandle
    /\ ui' = [Click(ui) EXCEPT !.isDecryptingTile = TRUE,
                                !.inFlight = @ \cup {Running("decryptTile", ui.tileData[ui.selectedTile])}]
    /\ UNCHANGED <<chain, cli>>

\* lines 295-308: the run of handleDecryptTile ends
DecryptTileEnd(r, signed) ==
    /\ r \in ui.inFlight /\ r.handler = "decryptTile"
    /\ ui' = Finished(IF signed /\ canDecrypt(r)
                       THEN [ui EXCEPT !.decryptedTiles[r.tile] = <<parseDecryptedValue(userDecrypt(r))>>]
                       ELSE ui,
                       r, "isDecryptingTile")
    /\ UNCHANGED <<chain, cli>>

(* ---------------- the command line (tasks/VeilGame.ts) ---------------- *)

\* signers[0], the account the tasks send from
Signer0 == "A"

Digits == <<"0", "1", "2", "3", "4", "5", "6", "7", "8", "9">>

DigitValue(c) == CHOOSE d \in 0 .. 9 : Digits[d + 1] = c

IsDigit(c) == \E d \in 0 .. 9 : Digits[d + 1] = c

\* the digits a string starts with, as a number; nan when there is none
RECURSIVE parseDigits(_, _, _)
parseDigits(str, n, any) ==
    IF str # <<>> /\ IsDigit(Head(str))
    THEN parseDigits(Tail(str), 10 * n + DigitValue(Head(str)), TRUE)
    ELSE [nan |-> ~any, n |-> n]

\* parseInt of a string given as its characters: leading blanks, a sign,
\* digits; what follows the digits is ignored
RECURSIVE parseInt(_)
parseInt(str) ==
    IF str # <<>> /\ Head(str) = " " THEN parseInt(Tail(str))
    ELSE IF str # <<>> /\ Head(str) = "-"
         THEN LET m == parseDigits(Tail(str), 0, FALSE) IN [nan |-> m.nan, n |-> 0 - m.n]
    ELSE IF str # <<>> /\ Head(str) = "+" THEN parseDigits(Tail(str), 0, FALSE)
    ELSE parseDigits(str, 0, FALSE)

\* Number.isInteger of a parseInt result
isInteger(m) == ~m.nan

BadTile == "Argument --tile must be 0-8"

BadType == "Argument --type must be 1-4"

\* mutant: the type is only checked from below
taskBuildCheckNoUpperBound(tileIndex, buildingType) ==
    IF ~isInteger(tileIndex) \/ tileIndex.n < 0 \/ tileIndex.n > 8 THEN BadTile
    ELSE IF ~isInteger(buildingType) \/ buildingType.n < 1 THEN BadType
    ELSE Ok

\* lines 502-507 of task:build
taskBuildCheck(tileIndex, buildingType) ==
    IF ~isInteger(tileIndex) \/ tileIndex.n < 0 \/ tileIndex.n > 8 THEN BadTile
    ELSE IF ~isInteger(buildingType) \/ buildingType.n < 1 \/ buildingType.n > 4 THEN BadType
    ELSE Ok

\* no task has run
NoTask ==
    [task |-> "none", tileIndex |-> parseInt(<<>>), buildingType |-> parseInt(<<>>),
     err |-> Ok, encrypted |-> FALSE, sent |-> FALSE]

\* lines 493-526: npx hardhat task:build --tile tile --type type
TaskBuild(tile, type) ==
    LET tileIndex == parseInt(tile)
        buildingType == parseInt(type)
        err == taskBuildCheck(tileIndex, buildingType)
    IN  /\ ui' = Click(ui)
        /\ cli' = [task |-> "task:build", tileIndex |-> tileIndex, buildingType |-> buildingType,
                   err |-> err, encrypted |-> err = Ok, sent |-> err = Ok]
        /\ IF err = Ok
           THEN Build(Signer0, tileIndex.n, buildingType.n, TRUE)
           ELSE UNCHANGED chain

Init ==
    /\ ui = InitialUi
    /\ cli = NoTask
    /\ players = [p \in Players |-> EmptyPlayer]
    /\ allowed = {}
    /\ log = <<>>
    /\ nextHandle = 1
    /\ sharedTrivial \in BOOLEAN
    /\ calls = 0
    /\ tx = Receipt("deploy", This, 0, 0, TRUE, Ok)
    /\ spent = [p \in Players |-> 0]

\* the ledger admits one call at a time, at most max of them
Admitted(max) == calls < max

\* the page and the command line are idle
Direct == UNCHANGED <<ui, cli>>

Next ==
    \/ \E p \in Players : Admitted(MaxCalls) /\ JoinGame(p) /\ Direct
    \/ \E p \in Players, i \in TileInputs, x \in TypeInputs, proofOk \in BOOLEAN :
           Admitted(MaxCalls) /\ Build(p, i, x, proofOk) /\ Direct
    \/ \E p \in Players : Admitted(MaxCalls) /\ IsJoined(p) /\ Direct
    \/ \E p \in Players : Admitted(MaxCalls) /\ GetBalance(p) /\ Direct
    \/ \E p \in Players, i \in TileInputs : Admitted(MaxCalls) /\ GetTile(p, i) /\ Direct

Spec == Init /\ [][Next]_vars

NextLong ==
    \/ \E p \in LongPlayers : Admitted(MaxLongCalls) /\ JoinGame(p) /\ Direct
    \/ \E p \in LongPlayers, i \in LongTiles, x \in LongTypes :
           Admitted(MaxLongCalls) /\ Build(p, i, x, TRUE) /\ Direct

SpecLong == Init /\ [][NextLong]_vars

\* every value a uint8 building type can take
CostTypes == 0 .. Uint8Max

NextCost ==
    \/ \E p \in LongPlayers : Admitted(MaxCostCalls) /\ JoinGame(p) /\ Direct
    \/ \E p \in LongPlayers, i \in LongTiles, x \in CostTypes :
           Admitted(MaxCostCalls) /\ Build(p, i, x, TRUE) /\ Direct

SpecCost == Init /\ [][NextCost]_vars

\* the strings tried as --tile and --type
\* the user has clicks left
Awake(max) == ui.clicks < max

\* the strings tried as --tile and --type: the last valid values, the first
\* invalid ones, a negative number, digits followed by something, no digits
TaskArgs ==
    {<<<<"8">>, <<"4">>>>, <<<<"9">>, <<"4">>>>, <<<<"-", "1">>, <<"1">>>>,
     <<<<"4", "x">>, <<"2", ".", "5">>>>, <<<<"x">>, <<"4">>>>,
     <<<<"8">>, <<"5">>>>, <<<<"0">>, <<"0">>>>, <<<<"0">>, <<"n">>>>}

\* the page (every handler, every selection) and task:build
NextUi ==
    \/ \E a \in Players : Awake(MaxClicks) /\ AccountChange(a)
    \/ isConnected /\ Refetch
    \/ \E index \in 0 .. (TILE_COUNT - 1) : Awake(MaxClicks) /\ SelectTile(index)
    \/ \E n \in 1 .. Len(BUILDINGS) : Awake(MaxClicks) /\ SelectBuilding(n)
    \/ Awake(MaxClicks) /\ JoinStart
    \/ \E r \in ui.inFlight, sent \in BOOLEAN : JoinEnd(r, sent)
    \/ Awake(MaxClicks) /\ BuildStart
    \/ \E r \in ui.inFlight, sent \in BOOLEAN : BuildEnd(r, sent)
    \/ Awake(MaxClicks) /\ DecryptBalanceStart
    \/ \E r \in ui.inFlight, signed \in BOOLEAN : DecryptBalanceEnd(r, signed)
    \/ Awake(MaxClicks) /\ DecryptTileStart
    \/ \E r \in ui.inFlight, signed \in BOOLEAN : DecryptTileEnd(r, signed)
    \/ \E args \in TaskArgs : Awake(MaxClicks) /\ TaskBuild(args[1], args[2])

SpecUi == Init /\ [][NextUi]_vars

(* ---------------- what the claims speak about ---------------- *)

Recognized == 1 .. 4

\* the caller's record before and after the call of tx
Before == tx.pre.players[tx.caller]

After == players[tx.caller]

\* the accounts persistently allowed on a handle
Grantees(acl, h) == {a \in Players \cup {This} : <<h, a>> \in acl}

\* a build call that passes the three checks of lines 296-300
BuildAccepted ==
    /\ tx.op = "build"
    /\ Before.joined
    /\ tx.tileIndex \in TileIndexes
    /\ tx.proofOk

\* the clear balance is at least n (a balance is below 2^16 whenever this is asked)
BalanceAtLeast(player, n) == U32Ge(player.balance.clear, U32(n))

\* nothing the chain persists differs from the start of the call
NothingWritten ==
    /\ players = tx.pre.players
    /\ allowed = tx.pre.allowed
    /\ log = tx.pre.log
    /\ nextHandle = tx.pre.nextHandle

(* C1: a build of a recognized type t by a joined player on a tile 0..8,   *)
(* with a clear balance of at least the table cost c of t (c itself        *)
(* included), succeeds, leaves the clear balance at exactly balance - c    *)
(* and the clear value of the tile at t.                                   *)
C1_AffordableBuildApplies ==
    (BuildAccepted /\ tx.type \in Recognized /\ BalanceAtLeast(Before, TableCost(tx.type)))
        => /\ tx.err = Ok
           /\ Before.balance.clear.hi = 0
           /\ After.balance.clear = U32(Before.balance.clear.lo - TableCost(tx.type))
           /\ After.tiles[tx.tileIndex].clear = tx.type

\* the balance was exactly the cost of the type built, and is now zero
C1_Witness ==
    /\ BuildAccepted /\ tx.err = Ok
    /\ tx.type = 4
    /\ Before.balance.clear = U32(TableCost(4))
    /\ After.balance.clear = U32(0)
    /\ After.tiles[tx.tileIndex].clear = 4

(* C2: a build of a recognized type whose table cost exceeds the clear     *)
(* balance still succeeds, and the clear balance and the clear value of    *)
(* the tile are what they were before the call.                            *)
C2_UnaffordableBuildIgnored ==
    (BuildAccepted /\ tx.type \in Recognized /\ ~BalanceAtLeast(Before, TableCost(tx.type)))
        => /\ tx.err = Ok
           /\ After.balance.clear = Before.balance.clear
           /\ After.tiles[tx.tileIndex].clear = Before.tiles[tx.tileIndex].clear

\* a type 4 build on a tile holding a type 1 building, with 900 coins left
C2_Witness ==
    /\ BuildAccepted /\ tx.err = Ok
    /\ tx.type = 4
    /\ Before.balance.clear = U32(900)
    /\ Before.tiles[tx.tileIndex].clear = 1
    /\ After.tiles[tx.tileIndex].clear = 1

(* C3: a build with a type code outside 1..4 succeeds; its cost is 0, its  *)
(* commit condition is false, and the clear balance and the clear value of *)
(* the tile are unchanged, whatever the balance.                           *)
C3_UnknownTypeIgnored ==
    (BuildAccepted /\ tx.type \notin Recognized)
        => /\ tx.err = Ok
           /\ buildCost(tx.type, tx.pre.nextHandle).clear = U32(0)
           /\ buildCommit(Before, tx.type, tx.pre.nextHandle).clear = FALSE
           /\ After.balance.clear = Before.balance.clear
           /\ After.tiles[tx.tileIndex].clear = Before.tiles[tx.tileIndex].clear

\* type 255 on a tile that holds a type 3 building
C3_Witness ==
    /\ BuildAccepted /\ tx.err = Ok
    /\ tx.type = Uint8Max
    /\ Before.tiles[tx.tileIndex].clear = 3
    /\ After.tiles[tx.tileIndex].clear = 3

(* C4: joinGame by an address that has not joined succeeds; afterwards     *)
(* joined is true, the balance is a ciphertext of STARTING_BALANCE and     *)
(* each of the nine tiles is a ciphertext of 0.                            *)
C4_JoinMintsStartingState ==
    (tx.op = "joinGame" /\ ~Before.joined)
        => /\ tx.err = Ok
           /\ After.joined
           /\ After.balance.handle # NoHandle
           /\ After.balance.clear = U32(STARTING_BALANCE)
           /\ \A i \in TileIndexes :
                 After.tiles[i].handle # NoHandle /\ After.tiles[i].clear = 0

\* the second player joins after the first one has spent coins
C4_Witness ==
    /\ tx.op = "joinGame" /\ tx.err = Ok
    /\ \E q \in Players \ {tx.caller} :
          players[q].joined /\ players[q].balance.clear # U32(STARTING_BALANCE)
    /\ After.balance.clear = U32(STARTING_BALANCE)

(* C5: joinGame by an address that has already joined fails with "Already  *)
(* joined" and changes neither its flag, balance, tiles nor any grant; the *)
(* balance is not reset and no tile is cleared after earlier builds.       *)
C5_SecondJoinRejected ==
    (tx.op = "joinGame" /\ Before.joined)
        => /\ tx.err = AlreadyJoined
           /\ After = Before
           /\ allowed = tx.pre.allowed

\* the second join comes after a build that spent coins and placed a building
C5_Witness ==
    /\ tx.op = "joinGame" /\ tx.err = AlreadyJoined
    /\ After.balance.clear # U32(STARTING_BALANCE)
    /\ \E i \in TileIndexes : After.tiles[i].clear # 0

(* C6: a build with a tile index of 9 or more by a joined player fails     *)
(* with "Invalid tile" before the input is decoded (so also when the proof *)
(* is invalid); no ciphertext is produced, no grant issued, no event       *)
(* emitted, and the balance and tiles are unchanged.                       *)
C6_BadIndexRejected ==
    (tx.op = "build" /\ Before.joined /\ tx.tileIndex >= MAP_SIZE)
        => /\ tx.err = IndexOutOfRange
           /\ nextHandle = tx.pre.nextHandle
           /\ allowed = tx.pre.allowed
           /\ log = tx.pre.log
           /\ After = Before

\* index 9 with an input whose proof would not verify
C6_Witness ==
    /\ tx.op = "build" /\ Before.joined
    /\ tx.tileIndex = MAP_SIZE
    /\ ~tx.proofOk
    /\ tx.err = IndexOutOfRange

(* C7: a build by an address that has not joined fails with "Join first"   *)
(* for every tile index (9 and more included) and every input; the record  *)
(* stays empty: joined false, no balance, no tile, no new grant.           *)
C7_BuildNeedsJoin ==
    (tx.op = "build" /\ ~Before.joined)
        => /\ tx.err = NotJoined
           /\ After = EmptyPlayer
           /\ allowed = tx.pre.allowed
           /\ nextHandle = tx.pre.nextHandle

\* an out-of-range index from an address that has not joined
C7_Witness ==
    /\ tx.op = "build" /\ ~Before.joined
    /\ tx.tileIndex = Uint8Max
    /\ tx.err = NotJoined

\* a record is either empty or completely written and granted to its owner
RecordComplete(p) ==
    IF players[p].joined
    THEN /\ players[p].balance.handle # NoHandle
         /\ {p, This} \subseteq Grantees(allowed, players[p].balance.handle)
         /\ \A i \in TileIndexes :
               /\ players[p].tiles[i].handle # NoHandle
               /\ {p, This} \subseteq Grantees(allowed, players[p].tiles[i].handle)
    ELSE players[p] = EmptyPlayer

(* C8: a rejected call (Already joined, Join first, Invalid tile, invalid  *)
(* proof) writes nothing: the records of all players, the grants and the   *)
(* events are what they were before it; and no reachable state holds a     *)
(* partly written record.                                                  *)
C8_RejectedCallsWriteNothing ==
    /\ tx.err # Ok => NothingWritten
    /\ \A p \in Players : RecordComplete(p)

\* an invalid proof from a joined player while another player has joined too
C8_Witness ==
    /\ tx.err = InvalidProof
    /\ \A p \in Players : players[p].joined
    /\ NothingWritten

\* the ciphertexts a joined player's record holds
Stored(p) == {players[p].balance} \cup {players[p].tiles[i] : i \in TileIndexes}

(* C9: for every joined player, the ciphertext stored as its balance and   *)
(* the ciphertext stored in each of its nine tiles are allowed to exactly  *)
(* that player and the contract: the owner is never missing and no other   *)
(* player is ever allowed.                                                 *)
C9_OnlyOwnerAndContractAllowed ==
    \A p \in Players :
        players[p].joined =>
            \A c \in Stored(p) : Grantees(allowed, c.handle) = {p, This}

(* C10: a successful build stores exactly two new ciphertexts, one for the *)
(* balance and one for the tile built on, whether or not the commit        *)
(* condition holds; when it does not, they encrypt the old clear values;   *)
(* both are allowed to the caller and the contract when the call returns.  *)
IsNew(h) == h[1] = "computed" /\ h[3] >= tx.pre.nextHandle /\ h[3] < nextHandle

C10_BuildStoresTwoNewCiphertexts ==
    (tx.op = "build" /\ tx.err = Ok)
        => /\ IsNew(After.balance.handle)
           /\ IsNew(After.tiles[tx.tileIndex].handle)
           /\ After.balance.handle # After.tiles[tx.tileIndex].handle
           /\ \A i \in TileIndexes \ {tx.tileIndex} : After.tiles[i] = Before.tiles[i]
           /\ \A q \in Players \ {tx.caller} : players[q] = tx.pre.players[q]
           /\ ~buildCommit(Before, tx.type, tx.pre.nextHandle).clear
                 => /\ After.balance.clear = Before.balance.clear
                    /\ After.tiles[tx.tileIndex].clear = Before.tiles[tx.tileIndex].clear
           /\ {tx.caller, This} \subseteq Grantees(allowed, After.balance.handle)
           /\ {tx.caller, This} \subseteq Grantees(allowed, After.tiles[tx.tileIndex].handle)

\* a build that does not commit and still replaces both ciphertexts
C10_Witness ==
    /\ tx.op = "build" /\ tx.err = Ok
    /\ ~buildCommit(Before, tx.type, tx.pre.nextHandle).clear
    /\ After.balance.handle # Before.balance.handle
    /\ After.tiles[tx.tileIndex].handle # Before.tiles[tx.tileIndex].handle

\* what an observer without decryption rights sees of a record: its handles
Handles(player) ==
    [joined |-> player.joined,
     balance |-> player.balance.handle,
     tiles |-> [i \in TileIndexes |-> player.tiles[i].handle]]

(* C11: everything an accepted build shows without decryption is fixed by  *)
(* the caller, the tile index and the handles before the call: it          *)
(* succeeds, emits BuildingPlaced(caller, tileIndex), writes the balance   *)
(* slot and the slot of that tile with the two handles the call computes   *)
(* last, and allows the caller and the contract on both; a run with any    *)
(* other secret type from the same state stores the same handles.          *)
C11_BuildOutcomeIsPublic ==
    BuildAccepted
        => LET k == tx.pre.nextHandle
               balance == Computed("euint32", k + 18)
               tile == Computed("euint8", k + 19)
           IN  /\ tx.err = Ok
               /\ log = Append(tx.pre.log, <<"BuildingPlaced", tx.caller, tx.tileIndex>>)
               /\ Handles(After) = [Handles(Before) EXCEPT !.balance = balance,
                                                           !.tiles[tx.tileIndex] = tile]
               /\ allowed = tx.pre.allowed \cup ({balance, tile} \X {tx.caller, This})
               /\ nextHandle = k + 20
               /\ \A x \in LongTypes :
                     Handles(builtPlayer(Before, tx.tileIndex, x, k)) = Handles(After)

\* an unaffordable build, with the outcome of an applied one
C11_Witness ==
    /\ BuildAccepted /\ tx.err = Ok
    /\ tx.type \in Recognized
    /\ ~BalanceAtLeast(Before, TableCost(tx.type))
    /\ After.balance.clear = Before.balance.clear
    /\ After.balance.handle = Computed("euint32", tx.pre.nextHandle + 18)
    /\ log[Len(log)] = <<"BuildingPlaced", tx.caller, tx.tileIndex>>

(* C12: for an address whose joined flag is false, build, getBalance and   *)
(* getTile of that address are all rejected.                               *)
C12_UnjoinedRejectedEverywhere ==
    (tx.op \in {"build", "getBalance", "getTile"} /\ ~Before.joined)
        => tx.err # Ok

(* C13: isJoined, getBalance and getTile write nothing, grant nothing and  *)
(* emit nothing; isJoined returns the stored flag, getBalance the stored   *)
(* balance handle; getTile returns the stored handle of the tile for every *)
(* index 0..8 and fails with "Invalid tile" for every index from 9 on.     *)
C13_ViewsArePureReads ==
    (tx.op \in {"isJoined", "getBalance", "getTile"})
        => /\ NothingWritten
           /\ tx.op = "isJoined" => (tx.err = Ok /\ tx.ret = After.joined)
           /\ tx.op = "getBalance" => (tx.err = Ok /\ tx.ret = After.balance.handle)
           /\ tx.op = "getTile" =>
                 IF tx.tileIndex \in TileIndexes
                 THEN tx.err = Ok /\ tx.ret = After.tiles[tx.tileIndex].handle
                 ELSE tx.err = IndexOutOfRange /\ tx.ret = NoReturn

\* index 9 is refused for a player whose nine tiles exist
C13_Witness ==
    /\ tx.op = "getTile"
    /\ After.joined
    /\ tx.tileIndex = MAP_SIZE
    /\ tx.err = IndexOutOfRange
    /\ NothingWritten

\* the handles a player's record holds
StoredHandles(player) ==
    {player.balance.handle} \cup {player.tiles[i].handle : i \in TileIndexes}

\* the handles an account is allowed on
GrantedTo(acl, a) == {pair[1] : pair \in {g \in acl : g[2] = a}}

(* C14: a joinGame or build call of one player, accepted or rejected,      *)
(* leaves every other player's record (joined flag, balance, nine tiles),  *)
(* the accounts allowed on each ciphertext that record holds, and the      *)
(* handles the other player is allowed on, as they were before the call.   *)
C14_OtherPlayerUntouched ==
    (tx.op \in {"joinGame", "build"})
        => \A q \in Players \ {tx.caller} :
              /\ players[q] = tx.pre.players[q]
              /\ GrantedTo(allowed, q) = GrantedTo(tx.pre.allowed, q)
              /\ \A h \in StoredHandles(players[q]) :
                    Grantees(allowed, h) = Grantees(tx.pre.allowed, h)

\* the number of PlayerJoined events emitted for a player
RECURSIVE JoinedEvents(_, _)
JoinedEvents(events, p) ==
    IF events = <<>> THEN 0
    ELSE (IF Head(events) = <<"PlayerJoined", p>> THEN 1 ELSE 0) + JoinedEvents(Tail(events), p)

(* C15: no call turns a joined flag from true to false; the flag is true   *)
(* exactly when one PlayerJoined event has been emitted for the player;    *)
(* a joinGame call succeeds only when the flag was false, and that call    *)
(* is the only kind that sets it; so at most one join per player succeeds  *)
(* and at most one PlayerJoined is ever emitted for it.                    *)
C15_JoinedOnceAndForAll ==
    /\ \A p \in Players :
          /\ tx.pre.players[p].joined => players[p].joined
          /\ JoinedEvents(log, p) = (IF players[p].joined THEN 1 ELSE 0)
          /\ (players[p].joined /\ ~tx.pre.players[p].joined)
                => (tx.op = "joinGame" /\ tx.caller = p /\ tx.err = Ok)
    /\ (tx.op = "joinGame" /\ tx.err = Ok) => ~Before.joined

\* a join that came too late: the flag stays, no second event
C15_Witness ==
    /\ tx.op = "joinGame" /\ tx.err = AlreadyJoined
    /\ After.joined
    /\ JoinedEvents(log, tx.caller) = 1
    /\ Len(log) >= 2

\* the cost the web page shows for a type, 0 for a type it does not list
UiCost(t) ==
    LET listed == {n \in 1 .. Len(BUILDINGS) : BUILDINGS[n].id = t}
    IN  IF listed = {} THEN 0 ELSE BUILDINGS[CHOOSE n \in listed : TRUE].cost

(* C16: for every type code 0..255 a build decodes, _buildingCost yields   *)
(* the table cost (1 -> 100, 2 -> 200, 3 -> 400, 4 -> 1000, any other code *)
(* -> 0), which is what an affordable build takes off the balance, and the *)
(* build list of the web page holds the same four types and costs.         *)
C16_CostTable ==
    /\ BuildAccepted
          => /\ buildCost(tx.type, tx.pre.nextHandle).clear = U32(TableCost(tx.type))
             /\ buildCost(tx.type, tx.pre.nextHandle).clear = U32(UiCost(tx.type))
             /\ BalanceAtLeast(Before, TableCost(4))
                   => After.balance.clear = U32(Before.balance.clear.lo - TableCost(tx.type))
    /\ {BUILDINGS[n].id : n \in 1 .. Len(BUILDINGS)} = Recognized
    /\ \A n \in 1 .. Len(BUILDINGS) : BUILDINGS[n].cost = TableCost(BUILDINGS[n].id)

\* the most expensive type, paid from the starting balance
C16_Witness ==
    /\ BuildAccepted /\ tx.err = Ok
    /\ tx.type = 4
    /\ Before.balance.clear = U32(STARTING_BALANCE)
    /\ After.balance.clear = U32(STARTING_BALANCE - UiCost(4))
    /\ buildCost(tx.type, tx.pre.nextHandle).clear = U32(1000)

(* C17: a build that does not commit (unrecognized type, or a cost above   *)
(* the balance) on a tile that already holds a building leaves the clear   *)
(* type of that tile and the clear balance as the earlier build left       *)
(* them; after joinGame and build(2, type 3) the balance is 9600 and tile  *)
(* 2 holds 3, and build(2, type 9) then leaves 9600 and 3.                 *)
C17_FailedRebuildKeepsBuilding ==
    /\ (BuildAccepted /\ Before.tiles[tx.tileIndex].clear # 0
           /\ (tx.type \notin Recognized \/ ~BalanceAtLeast(Before, TableCost(tx.type))))
          => /\ tx.err = Ok
             /\ After.tiles[tx.tileIndex].clear = Before.tiles[tx.tileIndex].clear
             /\ After.tiles[tx.tileIndex].clear \in Recognized
             /\ After.balance.clear = Before.balance.clear
    /\ (BuildAccepted /\ tx.tileIndex = 2 /\ tx.type = 3
           /\ Before.balance.clear = U32(STARTING_BALANCE))
          => /\ After.balance.clear = U32(9600)
             /\ After.tiles[2].clear = 3

\* joinGame, build(2, type 3), build(2, type 9)
C17_Witness ==
    /\ calls = 3
    /\ BuildAccepted /\ tx.err = Ok
    /\ tx.tileIndex = 2 /\ tx.type = 9
    /\ Before.balance.clear = U32(9600) /\ Before.tiles[2].clear = 3
    /\ After.balance.clear = U32(9600) /\ After.tiles[2].clear = 3

RECURSIVE HandlesMade(_)
HandlesMade(ops) ==
    IF ops = <<>> THEN 0
    ELSE (IF Head(ops) \in {"allow", "allowThis"} THEN 0 ELSE 1) + HandlesMade(Tail(ops))

C20_BuildTouchesOneTile ==
    (tx.op = "build" /\ tx.err = Ok)
        => /\ Before.joined /\ After.joined
           /\ \A j \in TileIndexes \ {tx.tileIndex} :
                 /\ After.tiles[j].handle = Before.tiles[j].handle
                 /\ After.tiles[j].clear = Before.tiles[j].clear
                 /\ Grantees(allowed, After.tiles[j].handle)
                       = Grantees(tx.pre.allowed, Before.tiles[j].handle)
           /\ \A g \in allowed \ tx.pre.allowed :
                 g[1] \in {After.balance.handle, After.tiles[tx.tileIndex].handle}

\* a second building goes up next to the first one
C20_Witness ==
    /\ tx.op = "build" /\ tx.err = Ok
    /\ buildCommit(Before, tx.type, tx.pre.nextHandle).clear
    /\ After.tiles[tx.tileIndex].clear # Before.tiles[tx.tileIndex].clear
    /\ \E j \in TileIndexes \ {tx.tileIndex} :
          /\ Before.tiles[j].clear \in Recognized
          /\ After.tiles[j] = Before.tiles[j]

\* the difference line 307 computes before it selects
Difference == FHE_sub(Before.balance, buildCost(tx.type, tx.pre.nextHandle), tx.pre.nextHandle + 17)

(* C21: every accepted build computes balance - cost modulo 2^32; when the *)
(* balance is below the cost the difference wraps to a value of 2^32 - 1000 *)
(* or more, and that value is not what is stored; the clear balance        *)
(* of every joined player is in 0..10000 in every reachable state.         *)
C21_WrappedDifferenceNeverStored ==
    /\ \A p \in Players :
          players[p].joined
              => /\ players[p].balance.clear.hi = 0
                 /\ players[p].balance.clear.lo \in 0 .. STARTING_BALANCE
    /\ BuildAccepted
          => /\ Difference.clear = U32Sub(Before.balance.clear, U32(TableCost(tx.type)))
             /\ ~BalanceAtLeast(Before, TableCost(tx.type))
                   => /\ Difference.clear.hi = Half - 1
                      /\ Difference.clear.lo >= Half - TableCost(4)
                      /\ After.balance.clear # Difference.clear
                      /\ After.balance.clear = Before.balance.clear

\* 900 coins left and a type 4 build: 900 - 1000 wraps, 900 stays
C21_Witness ==
    /\ BuildAccepted /\ tx.err = Ok
    /\ tx.type = 4
    /\ Before.balance.clear = U32(900)
    /\ Difference.clear = [hi |-> Half - 1, lo |-> Half - 100]
    /\ After.balance.clear = U32(900)

\* the table cost of the buildings on the tiles i .. 8 of a record
RECURSIVE TilesCost(_, _)
TilesCost(player, i) ==
    IF i \notin TileIndexes THEN 0
    ELSE TableCost(player.tiles[i].clear) + TilesCost(player, i + 1)

(* C22: for every joined player, STARTING_BALANCE minus the clear balance  *)
(* is the sum of the table costs of all its builds that committed, and is  *)
(* at least the table cost of the buildings its nine tiles hold now; a     *)
(* player that has not joined has spent nothing.                           *)
C22_SpendingConserved ==
    \A p \in Players :
        IF players[p].joined
        THEN /\ players[p].balance.clear.hi = 0
             /\ STARTING_BALANCE - players[p].balance.clear.lo = spent[p]
             /\ spent[p] >= TilesCost(players[p], 0)
        ELSE spent[p] = 0

\* a building replaced by another: both were paid for, one is left
C22_Witness ==
    /\ BuildAccepted /\ tx.err = Ok
    /\ Before.tiles[tx.tileIndex].clear \in Recognized
    /\ After.tiles[tx.tileIndex].clear \in Recognized \ {Before.tiles[tx.tileIndex].clear}
    /\ spent[tx.caller] = TableCost(Before.tiles[tx.tileIndex].clear) + TableCost(tx.type)
    /\ spent[tx.caller] > TilesCost(After, 0)

(* C23: the clear value of every tile of a joined player is one of 0, 1,   *)
(* 2, 3, 4, whatever type codes were sent, and no call turns the clear     *)
(* value of a tile that holds a building into 0.                           *)
C23_TilesHoldTableTypes ==
    \A p \in Players :
        players[p].joined
            => \A i \in TileIndexes :
                  /\ players[p].tiles[i].clear \in {0} \cup Recognized
                  /\ tx.pre.players[p].tiles[i].clear # 0 => players[p].tiles[i].clear # 0

\* type 0 sent for a tile that holds a building
C23_Witness ==
    /\ BuildAccepted /\ tx.err = Ok
    /\ tx.type = 0
    /\ Before.tiles[tx.tileIndex].clear \in Recognized
    /\ After.tiles[tx.tileIndex].clear = Before.tiles[tx.tileIndex].clear

(* C24: no call raises the clear balance of a joined player; a build that  *)
(* commits lowers the caller's balance by at least 100 and any other call  *)
(* leaves it as it was; the total spent never exceeds STARTING_BALANCE;    *)
(* and a build by a player with fewer than 100 coins changes neither the   *)
(* clear balance nor the clear value of any tile.                          *)
C24_BalanceOnlyFalls ==
    /\ \A p \in Players :
          /\ spent[p] <= STARTING_BALANCE
          /\ tx.pre.players[p].joined
                => /\ U32Ge(tx.pre.players[p].balance.clear, players[p].balance.clear)
                   /\ (tx.op # "build" \/ tx.caller # p)
                         => players[p].balance.clear = tx.pre.players[p].balance.clear
    /\ BuildAccepted
          => /\ IF buildCommit(Before, tx.type, tx.pre.nextHandle).clear
                THEN /\ After.balance.clear.hi = 0
                     /\ Before.balance.clear.lo - After.balance.clear.lo >= 100
                ELSE After.balance.clear = Before.balance.clear
             /\ ~BalanceAtLeast(Before, 100)
                   => /\ After.balance.clear = Before.balance.clear
                      /\ \A i \in TileIndexes : After.tiles[i].clear = Before.tiles[i].clear

\* the cheapest building asked for with nothing left
C24_Witness ==
    /\ BuildAccepted /\ tx.err = Ok
    /\ tx.type = 1
    /\ Before.balance.clear = U32(0)
    /\ After.balance.clear = U32(0)
    /\ After.tiles[tx.tileIndex].clear = Before.tiles[tx.tileIndex].clear
    /\ spent[tx.caller] = STARTING_BALANCE

(* C25: whenever the page shows a decrypted balance or a decrypted tile    *)
(* value, it is the clear value of the balance or of that tile stored for  *)
(* the connected address.                                                  *)
C25_DisplayedValuesAreCurrent ==
    isConnected
        => /\ ui.clearBalance # <<>>
                 => ui.clearBalance[1] = ToNumber(players[ui.address].balance.clear)
           /\ \A i \in TileIndexes :
                 ui.decryptedTiles[i] # <<>>
                     => ui.decryptedTiles[i][1] = players[ui.address].tiles[i].clear

\* the runs of a handler that are in flight
InFlight(handler) == {r \in ui.inFlight : r.handler = handler}

(* C26: each of isJoining, isBuilding, isDecryptingBalance and             *)
(* isDecryptingTile is true exactly while a run of its handler is in       *)
(* flight, whether runs ended by success or by failure; its button is      *)
(* disabled while it is true; and at most one run of each handler is in    *)
(* flight at any time.                                                     *)
C26_BusyFlagsFollowHandlers ==
    /\ ui.isJoining = (InFlight("join") # {})
    /\ ui.isBuilding = (InFlight("build") # {})
    /\ ui.isDecryptingBalance = (InFlight("decryptBalance") # {})
    /\ ui.isDecryptingTile = (InFlight("decryptTile") # {})
    /\ ui.isJoining => ~joinEnabled
    /\ ui.isBuilding => ~buildEnabled
    /\ ui.isDecryptingBalance => ~decryptBalanceEnabled
    /\ ui.isDecryptingTile => ~decryptTileEnabled
    /\ \A handler \in {"join", "build", "decryptBalance", "decryptTile"} :
          Cardinality(InFlight(handler)) <= 1

\* a second join from the page was refused by the contract and its run is over
C26_Witness ==
    /\ tx.op = "joinGame" /\ tx.err = AlreadyJoined
    /\ ~ui.isJoining
    /\ InFlight("join") = {}
    /\ joinEnabled

(* C27: the tile the page has selected, and the tile of every build it     *)
(* sends, is in 0..8 and is labelled 1..9; the building type it has        *)
(* selected and encrypts is in 1..4; the page reads getTile for indexes    *)
(* 0..8 only; task:build ends with an error, before it encrypts or sends   *)
(* anything, exactly when --tile is not an integer in 0..8 or --type not   *)
(* an integer in 1..4; so every build sent has a tile in 0..8 and a type   *)
(* in 1..4.                                                                *)
C27_BuildInputsInRange ==
    /\ ui.selectedTile \in TileIndexes
    /\ tileLabel(ui.selectedTile) \in 1 .. 9
    /\ ui.selectedBuilding \in Recognized
    /\ \A r \in ui.inFlight : r.tile \in TileIndexes /\ r.building \in Recognized
    /\ DOMAIN ui.tileData = TileIndexes
    /\ tx.op = "build" => (tx.tileIndex \in TileIndexes /\ tx.type \in Recognized)
    /\ cli.task = "task:build"
          => /\ (cli.err = Ok) = (/\ ~cli.tileIndex.nan /\ cli.tileIndex.n \in TileIndexes
                                  /\ ~cli.buildingType.nan /\ cli.buildingType.n \in Recognized)
             /\ cli.encrypted = (cli.err = Ok)
             /\ cli.sent = (cli.err = Ok)

\* the last tile of the page is selected and task:build has refused type 5
C27_Witness ==
    /\ ui.selectedTile = TILE_COUNT - 1
    /\ cli.task = "task:build"
    /\ cli.tileIndex = [nan |-> FALSE, n |-> 8]
    /\ cli.buildingType = [nan |-> FALSE, n |-> 5]
    /\ cli.err = BadType
    /\ ~cli.encrypted /\ ~cli.sent
    /\ tx.op # "build"

====
